---- MODULE Spec2Model ----
(***************************************************************************)
(* XTranscribe: the input-mode and playback-synchronisation state machine  *)
(* of src/src/app/page.tsx (component Home), with the parts of the audio   *)
(* player (src/src/components/audio-player.tsx) and of the file upload     *)
(* (src/src/components/file-upload.tsx) that its handlers drive.           *)
(*                                                                         *)
(* JavaScript runs one task at a time.  A handler, a timer callback or the *)
(* continuation of an await runs to its end; React batches the state       *)
(* updates it made, renders, and runs the effects whose dependencies       *)
(* changed.  One action of this model is one such task together with the   *)
(* render and the effects that follow it.  A handler reads React state     *)
(* from the closure of the render it was created in, so its reads see the  *)
(* values from before its own updates; refs and the DOM are read live.     *)
(***************************************************************************)
EXTENDS Integers, Sequences, FiniteSets, TLC

\* ---------------------------------------------------------------- bounds
\* asynchronous work pending at one time: upload simulations, queued timeouts,
\* transcription and summarization calls
MaxPending == 2
\* interval handles
MaxTimers == 2
\* fields of the custom-prompt slots filled in at one time
MaxFilledFields == 1

\* ------------------------------------------------------ program constants
ProgressStep == 5
ProgressCap == 95
ProgressDone == 100
\* Times of the transcript editor are in hundredths of a second; the tolerance
\* added to a segment's end is 0.1 s
Tolerance == 10
\* The player's volume is in hundredths: 1 at mount, 0.5 when unmuting at 0
FullVolume == 100
UnmuteVolume == 50
\* seconds the rewind and fast-forward buttons skip
SkipSeconds == 10
\* the number of custom-prompt slots
MAX_CUSTOM_PROMPTS == 3

\* ------------------------------------------------------------ input sets
NoFile == "none"
Files == {"f1", "f2"}
NoText == << >>

\* what the user can have in the URL field: nothing, only blanks, a URL
UrlTexts == {NoText, <<" ">>, <<"x">>}
PromptTexts == {NoText, <<"x">>}

\* String.prototype.trim on a sequence of characters
RECURSIVE TrimStart(_)
TrimStart(s) == IF s # NoText /\ Head(s) = " " THEN TrimStart(Tail(s)) ELSE s

RECURSIVE TrimEnd(_)
TrimEnd(s) ==
  IF s # NoText /\ s[Len(s)] = " " THEN TrimEnd(SubSeq(s, 1, Len(s) - 1)) ELSE s

Trim(s) == TrimEnd(TrimStart(s))

\* JavaScript truthiness of a string (null and "" are both falsy)
Truthy(s) == s # NoText

\* What transcribeAudio can resolve with (transcribe-audio-flow.ts:131-137): no
\* text and no segments, or a text with its timed segments.  It throws rather
\* than resolve with nothing.
EmptyResult == [text |-> NoText, segments |-> << >>]
HelloWorldResult ==
  [text |-> <<"x", " ", "x">>,
   segments |-> << [start |-> 0, end |-> 1, text |-> <<"x">>],
                   [start |-> 1, end |-> 2, text |-> <<"x">>] >>]
TranscribeResults == {EmptyResult, HelloWorldResult}

\* What summarizeTranscriptWithPrompt can resolve with: never the empty string
\* (summarize-transcript-flow.ts:96-100)
SummaryResults == {"<p>Short.</p>", "<p>Long.</p>"}

\* What the transcript editor can be given, in hundredths of a second: the
\* segments of a transcript, and a playback time or none
EditorSegments ==
  { [start |-> 0, end |-> 200, text |-> <<"x">>],
    [start |-> 200, end |-> 500, text |-> <<"x">>],
    [start |-> 500, end |-> 520, text |-> <<"x">>] }
EditorSegmentLists ==
  {<< >>} \cup {<<a>> : a \in EditorSegments}
          \cup {<<a, b>> : a \in EditorSegments, b \in EditorSegments}
Undefined == -1
EditorTimes == {Undefined, 0, 199, 200, 500, 505, 510, 511, 520}

\* A custom-prompt slot has a name and a content; all slots start empty
CustomPromptFields == {"name", "content"}
initialEmptyPrompts == [i \in 1 .. MAX_CUSTOM_PROMPTS |-> [name |-> NoText, content |-> NoText]]

\* times a caller of seekTo can ask for, in whole seconds, some out of range
SeekTimes == -1 .. 3
SkipAmounts == {-SkipSeconds, SkipSeconds}

\* positions of the volume slider, in hundredths
Volumes == {0, UnmuteVolume, FullVolume}

\* audio.duration of each file once its metadata has loaded, in whole seconds
DurationOf(file) == IF file = "f1" THEN 1 ELSE 2

\* ------------------------------------------------------------------ state
\* Home's useState cells (page.tsx:51-70)
VARIABLES selectedFile, youtubeUrl, audioSrc, transcriptSegments, fullTranscript,
          summaryPrompt, summary, isProcessingFile, isProcessingYouTube,
          isSummarizing, currentAudioTime, youtubePlaceholderMessage,
          transcriptionProgress, aiSuggestions, selectedAiPrompt
\* Home's refs and the asynchronous work it has started
VARIABLES progressIntervalRef, timers, calls, timeouts, ytTimeouts, summarizeCalls
\* AudioPlayer: its useState cells and the media element
VARIABLES isPlaying, currentTime, duration, audioPaused, volume, isMuted
\* FileUpload: its useState cells and its running upload simulations
VARIABLES uploadingFile, uploadProgress, sims
\* TranscriptEditor: its props segments and currentTime, and the segments its
\* render marks as active
VARIABLES segments, currentTimeProp, activeSegments
\* PromptSuggestions: the saved custom prompts and the entries being edited
VARIABLES savedCustomPrompts, currentCustomPromptEntries

homeVars == <<selectedFile, youtubeUrl, audioSrc, transcriptSegments, fullTranscript,
              summaryPrompt, summary, isProcessingFile, isProcessingYouTube,
              isSummarizing, currentAudioTime, youtubePlaceholderMessage,
              transcriptionProgress, aiSuggestions, selectedAiPrompt>>
asyncVars == <<progressIntervalRef, timers, calls, timeouts, ytTimeouts, summarizeCalls>>
playerVars == <<isPlaying, currentTime, duration, audioPaused, volume, isMuted>>
uploadVars == <<uploadingFile, uploadProgress, sims>>
editorVars == <<segments, currentTimeProp, activeSegments>>
promptVars == <<savedCustomPrompts, currentCustomPromptEntries>>
vars == <<homeVars, asyncVars, playerVars, uploadVars, editorVars, promptVars>>

TimerIds == 1 .. MaxTimers
NoTimer == 0
\* a cleared interval; a live one holds its closure's currentProgress
Cleared == -1
NoProgress == -1

\* The whole state as one record, so that a handler is a function from state to
\* state and a handler that calls another one is their composition.  srcRenewed
\* is not state: it records, within one task, that the selected-file effect
\* created a fresh object URL.
World ==
  [selectedFile |-> selectedFile, youtubeUrl |-> youtubeUrl, audioSrc |-> audioSrc,
   transcriptSegments |-> transcriptSegments, fullTranscript |-> fullTranscript,
   summaryPrompt |-> summaryPrompt, summary |-> summary,
   isProcessingFile |-> isProcessingFile, isProcessingYouTube |-> isProcessingYouTube,
   isSummarizing |-> isSummarizing, currentAudioTime |-> currentAudioTime,
   youtubePlaceholderMessage |-> youtubePlaceholderMessage,
   transcriptionProgress |-> transcriptionProgress,
   aiSuggestions |-> aiSuggestions, selectedAiPrompt |-> selectedAiPrompt,
   progressIntervalRef |-> progressIntervalRef, timers |-> timers, calls |-> calls,
   timeouts |-> timeouts, ytTimeouts |-> ytTimeouts, summarizeCalls |-> summarizeCalls,
   isPlaying |-> isPlaying, currentTime |-> currentTime, duration |-> duration,
   audioPaused |-> audioPaused, volume |-> volume, isMuted |-> isMuted,
   uploadingFile |-> uploadingFile, uploadProgress |-> uploadProgress, sims |-> sims,
   savedCustomPrompts |-> savedCustomPrompts,
   currentCustomPromptEntries |-> currentCustomPromptEntries,
   srcRenewed |-> FALSE]

Commit(w) ==
  /\ selectedFile' = w.selectedFile
  /\ youtubeUrl' = w.youtubeUrl
  /\ audioSrc' = w.audioSrc
  /\ transcriptSegments' = w.transcriptSegments
  /\ fullTranscript' = w.fullTranscript
  /\ summaryPrompt' = w.summaryPrompt
  /\ summary' = w.summary
  /\ isProcessingFile' = w.isProcessingFile
  /\ isProcessingYouTube' = w.isProcessingYouTube
  /\ isSummarizing' = w.isSummarizing
  /\ currentAudioTime' = w.currentAudioTime
  /\ youtubePlaceholderMessage' = w.youtubePlaceholderMessage
  /\ transcriptionProgress' = w.transcriptionProgress
  /\ aiSuggestions' = w.aiSuggestions
  /\ selectedAiPrompt' = w.selectedAiPrompt
  /\ progressIntervalRef' = w.progressIntervalRef
  /\ timers' = w.timers
  /\ calls' = w.calls
  /\ timeouts' = w.timeouts
  /\ ytTimeouts' = w.ytTimeouts
  /\ summarizeCalls' = w.summarizeCalls
  /\ isPlaying' = w.isPlaying
  /\ currentTime' = w.currentTime
  /\ duration' = w.duration
  /\ audioPaused' = w.audioPaused
  /\ volume' = w.volume
  /\ isMuted' = w.isMuted
  /\ uploadingFile' = w.uploadingFile
  /\ uploadProgress' = w.uploadProgress
  /\ sims' = w.sims
  /\ savedCustomPrompts' = w.savedCustomPrompts
  /\ currentCustomPromptEntries' = w.currentCustomPromptEntries

\* Home, the player, the file upload and the prompt suggestions after mount:
\* every cell at its useState default, the mount effects run (audioSrc null, no
\* interval, player reset for "no source", nothing in the local storage).
Mounted ==
  /\ selectedFile = NoFile
  /\ youtubeUrl = NoText
  /\ audioSrc = NoFile
  /\ transcriptSegments = << >>
  /\ fullTranscript = NoText
  /\ summaryPrompt = NoText
  /\ summary = ""
  /\ isProcessingFile = FALSE
  /\ isProcessingYouTube = FALSE
  /\ isSummarizing = FALSE
  /\ currentAudioTime = 0
  /\ youtubePlaceholderMessage = NoText
  /\ transcriptionProgress = 0
  /\ aiSuggestions = << >>
  /\ selectedAiPrompt = ""
  /\ progressIntervalRef = NoTimer
  /\ timers = [t \in TimerIds |-> Cleared]
  /\ calls = << >>
  /\ timeouts = << >>
  /\ ytTimeouts = 0
  /\ summarizeCalls = << >>
  /\ isPlaying = FALSE
  /\ currentTime = 0
  /\ duration = 0
  /\ audioPaused = TRUE
  /\ volume = FullVolume
  /\ isMuted = FALSE
  /\ uploadingFile = NoFile
  /\ uploadProgress = NoProgress
  /\ sims = << >>
  /\ savedCustomPrompts = initialEmptyPrompts
  /\ currentCustomPromptEntries = initialEmptyPrompts

\* State after mount.  The editor has no segments to render.
Init ==
  /\ Mounted
  /\ segments = << >>
  /\ currentTimeProp = 0
  /\ activeSegments = {}

\* ------------------------------------------------------- TranscriptEditor
\* the predicate without the tolerance
isSegmentActive_NoTolerance(segment, time) ==
  IF time = Undefined THEN FALSE
  ELSE time >= segment.start /\ time <= segment.end

\* transcript-editor.tsx:44-47; time is the currentTime prop of the render
isSegmentActive(segment, time) ==
  IF time = Undefined THEN FALSE
  ELSE time >= segment.start /\ time <= segment.end + Tolerance

\* the spans a render gives the active class (transcript-editor.tsx:63-79)
ActiveSpans(segs, time) == {i \in 1 .. Len(segs) : isSegmentActive(segs[i], time)}

\* page.tsx:397-405, computed on every render from the state w
isAnyProcessingActive(w) == w.isProcessingFile \/ w.isProcessingYouTube
isTranscriptAvailable(w) ==
  /\ (Len(Trim(w.fullTranscript)) > 0 \/ Len(w.transcriptSegments) > 0)
  /\ ~Truthy(w.youtubePlaceholderMessage)
  /\ ~w.isProcessingFile
fileUploadDisabled_IgnoresUrl(w) == isAnyProcessingActive(w)
fileUploadDisabled(w) == isAnyProcessingActive(w) \/ Truthy(Trim(w.youtubeUrl))
youtubeInputDisabled(w) == isAnyProcessingActive(w) \/ w.selectedFile # NoFile
processYoutubeButtonDisabled(w) ==
  ~Truthy(Trim(w.youtubeUrl)) \/ isAnyProcessingActive(w) \/ w.selectedFile # NoFile
featuresRequiringTranscriptDisabled(w) ==
  ~isTranscriptAvailable(w) \/ w.isSummarizing \/ w.isProcessingFile
clearAndResetDisabled(w) ==
  w.isProcessingFile \/ w.isProcessingYouTube \/ w.isSummarizing

\* ------------------------------------------------------------ AudioPlayer
\* c is the render the player's callbacks were created in (their closure);
\* canPlay says whether readyState >= 2 and play() starts playback.
handlePlayPause(c, w, canPlay) ==
  IF c.audioSrc = NoFile THEN w
  ELSE IF c.isPlaying THEN [w EXCEPT !.audioPaused = TRUE]
  ELSE IF canPlay THEN [w EXCEPT !.audioPaused = FALSE]
  ELSE [w EXCEPT !.currentTime = 0]          \* load() rewinds the element

Clamp(lo, hi, x) == IF x < lo THEN lo ELSE IF x > hi THEN hi ELSE x

\* seekTo without the handlePlayPause() of its last lines
seekTo_NoAutoPlay(c, w, time, canPlay) ==
  IF c.duration > 0
  THEN [w EXCEPT !.currentTime = Clamp(0, c.duration, time)]
  ELSE w

seekTo(c, w, time, canPlay) ==
  IF c.duration > 0
  THEN LET moved == [w EXCEPT !.currentTime = Clamp(0, c.duration, time)]
       IN IF ~c.isPlaying /\ w.audioPaused
          THEN handlePlayPause(c, moved, canPlay)
          ELSE moved
  ELSE w

pause(c, w) == IF c.isPlaying THEN handlePlayPause(c, w, FALSE) ELSE w

play(c, w, canPlay) == IF ~c.isPlaying THEN handlePlayPause(c, w, canPlay) ELSE w

\* audio-player.tsx:117-122, the progress slider
handleSeek(c, w, newTime) == [w EXCEPT !.currentTime = newTime]

\* audio-player.tsx:146-151; the position is read from the element
handleSkip(c, w, amount) ==
  IF c.duration = 0 THEN w
  ELSE [w EXCEPT !.currentTime = Clamp(0, c.duration, w.currentTime + amount)]

\* audio-player.tsx:124-131, the volume slider
handleVolumeChange(c, w, newVolume) ==
  [w EXCEPT !.volume = newVolume, !.isMuted = (newVolume = 0)]

\* toggleMute without its raise of a volume of 0
toggleMute_KeepsVolume(c, w) == [w EXCEPT !.isMuted = ~c.isMuted]

\* audio-player.tsx:133-144
toggleMute(c, w) ==
  LET currentlyMuted == ~c.isMuted
  IN IF ~currentlyMuted /\ c.volume = 0
     THEN [w EXCEPT !.isMuted = currentlyMuted, !.volume = UnmuteVolume]
     ELSE [w EXCEPT !.isMuted = currentlyMuted]

\* the effect resetting the volume and the mute state with the rest
PlayerSrcEffect_ResetsVolume(prev, cur, w) ==
  IF cur.audioSrc # prev.audioSrc \/ cur.srcRenewed
  THEN [w EXCEPT !.isPlaying = FALSE, !.currentTime = 0, !.duration = 0,
                 !.audioPaused = TRUE, !.volume = FullVolume, !.isMuted = FALSE]
  ELSE w

\* useEffect[src] of the player: a changed source resets it and reloads the
\* element (a playing element is paused and rewound by load()).
PlayerSrcEffect(prev, cur, w) ==
  IF cur.audioSrc # prev.audioSrc \/ cur.srcRenewed
  THEN [w EXCEPT !.isPlaying = FALSE, !.currentTime = 0, !.duration = 0,
                 !.audioPaused = TRUE]
  ELSE w

\* onPlay / onPause of the media element, delivered after the task
MediaEvents(w) == [w EXCEPT !.isPlaying = ~w.audioPaused]

\* ------------------------------------------------------------- FileUpload
\* useEffect[currentFile, uploadingFile] and useEffect[disabled]
UploadEffects(prev, cur, w) ==
  LET fileChanged == \/ cur.selectedFile # prev.selectedFile
                     \/ cur.uploadingFile # prev.uploadingFile
      nowDisabled == fileUploadDisabled(cur) /\ ~fileUploadDisabled(prev)
  IN IF (fileChanged /\ cur.selectedFile # cur.uploadingFile) \/ nowDisabled
     THEN [w EXCEPT !.uploadingFile = NoFile, !.uploadProgress = NoProgress]
     ELSE w

\* ------------------------------------------------------------------- Home
\* the effect with the setAudioSrc(null) of its else branch left out
HomeEffect_KeepsSrc(prev, cur, w) ==
  IF cur.selectedFile = prev.selectedFile /\ cur.isProcessingFile = prev.isProcessingFile
  THEN w
  ELSE IF cur.selectedFile # NoFile
       THEN [w EXCEPT !.audioSrc = cur.selectedFile, !.srcRenewed = TRUE,
                      !.youtubeUrl = NoText, !.youtubePlaceholderMessage = NoText,
                      !.isProcessingYouTube = FALSE]
       ELSE w

\* the effect without the setYoutubePlaceholderMessage(null) of its file branch
HomeEffect_KeepsPlaceholder(prev, cur, w) ==
  IF cur.selectedFile = prev.selectedFile /\ cur.isProcessingFile = prev.isProcessingFile
  THEN w
  ELSE IF cur.selectedFile # NoFile
       THEN [w EXCEPT !.audioSrc = cur.selectedFile, !.srcRenewed = TRUE,
                      !.youtubeUrl = NoText,
                      !.isProcessingYouTube = FALSE]
       ELSE [w EXCEPT !.audioSrc = NoFile]

\* the effect without the setAudioSrc(newObjectUrl) of its file branch
HomeEffect_NoObjectUrl(prev, cur, w) ==
  IF cur.selectedFile = prev.selectedFile /\ cur.isProcessingFile = prev.isProcessingFile
  THEN w
  ELSE IF cur.selectedFile # NoFile
       THEN [w EXCEPT !.youtubeUrl = NoText, !.youtubePlaceholderMessage = NoText,
                      !.isProcessingYouTube = FALSE]
       ELSE [w EXCEPT !.audioSrc = NoFile]

\* the effect without the setYoutubeUrl('') of its file branch
HomeEffect_KeepsUrl(prev, cur, w) ==
  IF cur.selectedFile = prev.selectedFile /\ cur.isProcessingFile = prev.isProcessingFile
  THEN w
  ELSE IF cur.selectedFile # NoFile
       THEN [w EXCEPT !.audioSrc = cur.selectedFile, !.srcRenewed = TRUE,
                      !.youtubePlaceholderMessage = NoText,
                      !.isProcessingYouTube = FALSE]
       ELSE [w EXCEPT !.audioSrc = NoFile]

\* useEffect[selectedFile, isProcessingFile]: prev is the previous render
HomeEffect(prev, cur, w) ==
  IF cur.selectedFile = prev.selectedFile /\ cur.isProcessingFile = prev.isProcessingFile
  THEN w
  ELSE IF cur.selectedFile # NoFile
       THEN [w EXCEPT !.audioSrc = cur.selectedFile, !.srcRenewed = TRUE,
                      !.youtubeUrl = NoText, !.youtubePlaceholderMessage = NoText,
                      !.isProcessingYouTube = FALSE]
       ELSE [w EXCEPT !.audioSrc = NoFile]

\* Render after a task that started in state c and left the batched updates w:
\* the effects of that render, the render their updates cause, and its effects.
Settle(c, w) ==
  LET r1 == w
      r2 == HomeEffect(c, r1, UploadEffects(c, r1, PlayerSrcEffect(c, r1, r1)))
      r3 == UploadEffects(r1, r2, PlayerSrcEffect(r1, r2, r2))
      r4 == UploadEffects(r2, r3, r3)
  IN MediaEvents([r4 EXCEPT !.srcRenewed = FALSE])

\* the handle forgotten without clearInterval
ClearProgressInterval_ForgetsHandle(w) == [w EXCEPT !.progressIntervalRef = NoTimer]

\* clearInterval(progressIntervalRef.current); progressIntervalRef.current = null
ClearProgressInterval(w) ==
  IF w.progressIntervalRef # NoTimer
  THEN [w EXCEPT !.timers[w.progressIntervalRef] = Cleared,
                 !.progressIntervalRef = NoTimer]
  ELSE w

\* A transcription call in flight is an entry of calls, in the order the calls
\* were started.  Its two fields are not program state; they remember what has
\* happened since the call was started: superseded, that a full reset has run;
\* latest, that no newer attempt has been started.
MarkSuperseded(w) ==
  [w EXCEPT !.calls = [i \in 1 .. Len(w.calls) |-> [w.calls[i] EXCEPT !.superseded = TRUE]]]

MarkOlder(inFlight) ==
  [i \in 1 .. Len(inFlight) |-> [inFlight[i] EXCEPT !.latest = FALSE]]

\* handleClearAndReset with its clearInterval left out
handleClearAndReset_KeepsInterval(c, w, canPlay) ==
  LET b == [w EXCEPT !.isProcessingFile = FALSE,
                     !.transcriptionProgress = 0,
                     !.selectedFile = NoFile,
                     !.youtubeUrl = NoText,
                     !.youtubePlaceholderMessage = NoText,
                     !.isProcessingYouTube = FALSE,
                     !.transcriptSegments = << >>,
                     !.fullTranscript = NoText,
                     !.summary = "",
                     !.summaryPrompt = NoText,
                     !.selectedAiPrompt = "",
                     !.aiSuggestions = << >>,
                     !.currentAudioTime = 0]
  IN MarkSuperseded(seekTo(c, pause(c, b), 0, canPlay))

\* page.tsx:114-144
handleClearAndReset(c, w, canPlay) ==
  LET a == ClearProgressInterval(w)
      b == [a EXCEPT !.isProcessingFile = FALSE,
                     !.transcriptionProgress = 0,
                     !.selectedFile = NoFile,
                     !.youtubeUrl = NoText,
                     !.youtubePlaceholderMessage = NoText,
                     !.isProcessingYouTube = FALSE,
                     !.transcriptSegments = << >>,
                     !.fullTranscript = NoText,
                     !.summary = "",
                     !.summaryPrompt = NoText,
                     !.selectedAiPrompt = "",
                     !.aiSuggestions = << >>,
                     !.currentAudioTime = 0]
  IN MarkSuperseded(seekTo(c, pause(c, b), 0, canPlay))

\* setInterval returns a handle that is not live yet
NewTimerId(w) ==
  IF \E t \in TimerIds : w.timers[t] = Cleared
  THEN CHOOSE t \in TimerIds : /\ w.timers[t] = Cleared
                               /\ \A u \in TimerIds : w.timers[u] = Cleared => t <= u
  ELSE MaxTimers

\* handleProcessFile without its setIsProcessingYouTube(false)
handleProcessFile_KeepsYouTubeFlag(c, w, fileToProcess, canPlay) ==
  LET a == [w EXCEPT !.isProcessingFile = TRUE,
                     !.transcriptSegments = << >>,
                     !.fullTranscript = NoText,
                     !.summary = "",
                     !.transcriptionProgress = 0,
                     !.currentAudioTime = 0]
      b == seekTo(c, pause(c, a), 0, canPlay)
      d == ClearProgressInterval(
             [b EXCEPT !.youtubeUrl = NoText,
                       !.youtubePlaceholderMessage = NoText])
      id == NewTimerId(d)
  IN [d EXCEPT !.timers[id] = 0,
               !.progressIntervalRef = id,
               !.calls = Append(MarkOlder(d.calls), [superseded |-> FALSE, latest |-> TRUE])]

\* handleProcessFile without the clearing of the previous transcript, summary
\* and progress
handleProcessFile_KeepsPrevious(c, w, fileToProcess, canPlay) ==
  LET a == [w EXCEPT !.isProcessingFile = TRUE,
                     !.currentAudioTime = 0]
      b == seekTo(c, pause(c, a), 0, canPlay)
      d == ClearProgressInterval(
             [b EXCEPT !.youtubeUrl = NoText,
                       !.youtubePlaceholderMessage = NoText,
                       !.isProcessingYouTube = FALSE])
      id == NewTimerId(d)
  IN [d EXCEPT !.timers[id] = 0,
               !.progressIntervalRef = id,
               !.calls = Append(MarkOlder(d.calls), [superseded |-> FALSE, latest |-> TRUE])]

\* handleProcessFile up to its first await (page.tsx:193-238)
handleProcessFile(c, w, fileToProcess, canPlay) ==
  LET a == [w EXCEPT !.isProcessingFile = TRUE,
                     !.transcriptSegments = << >>,
                     !.fullTranscript = NoText,
                     !.summary = "",
                     !.transcriptionProgress = 0,
                     !.currentAudioTime = 0]
      b == seekTo(c, pause(c, a), 0, canPlay)
      d == ClearProgressInterval(
             [b EXCEPT !.youtubeUrl = NoText,
                       !.youtubePlaceholderMessage = NoText,
                       !.isProcessingYouTube = FALSE])
      id == NewTimerId(d)
  IN [d EXCEPT !.timers[id] = 0,
               !.progressIntervalRef = id,
               !.calls = Append(MarkOlder(d.calls), [superseded |-> FALSE, latest |-> TRUE])]

\* One tick of the interval created by handleProcessFile (page.tsx:224-232).
\* currentProgress lives in the tick's closure; once it has reached the cap the
\* tick writes the cap whatever the counter, so the counter is kept at the cap.
ProgressTick(w, t) ==
  LET currentProgress == w.timers[t] + ProgressStep
  IN IF currentProgress < ProgressCap
     THEN [w EXCEPT !.timers[t] = currentProgress,
                    !.transcriptionProgress = currentProgress]
     ELSE [w EXCEPT !.timers[t] = ProgressCap,
                    !.transcriptionProgress = ProgressCap]

RemoveAt(seq, i) == SubSeq(seq, 1, i - 1) \o SubSeq(seq, i + 1, Len(seq))

\* result?.segments || []   and   result?.text || ""
SegmentsOf(result) == result.segments
TextOf(result) == result.text

\* the try block with the finally block left out
TranscriptionResolved_NoFinally(w, result) ==
  LET a == ClearProgressInterval(w)
  IN [a EXCEPT !.transcriptionProgress = ProgressDone,
               !.transcriptSegments = SegmentsOf(result),
               !.fullTranscript = TextOf(result)]

\* the try block without its clearInterval
TranscriptionResolved_KeepsInterval(w, result) ==
  [w EXCEPT !.transcriptionProgress = ProgressDone,
            !.transcriptSegments = SegmentsOf(result),
            !.fullTranscript = TextOf(result),
            !.isProcessingFile = FALSE]

\* try block after the awaits, then finally (page.tsx:245-262, 283-286)
TranscriptionResolved(w, result) ==
  LET a == ClearProgressInterval(w)
  IN [a EXCEPT !.transcriptionProgress = ProgressDone,
               !.transcriptSegments = SegmentsOf(result),
               !.fullTranscript = TextOf(result),
               !.isProcessingFile = FALSE]

\* the catch block without its setTranscriptionProgress(0)
TranscriptionRejected_KeepsProgress(w) ==
  LET a == ClearProgressInterval(w)
  IN [a EXCEPT !.transcriptSegments = << >>,
               !.fullTranscript = NoText,
               !.isProcessingFile = FALSE]

\* the catch block without its clearing of the transcript
TranscriptionRejected_KeepsTranscript(w) ==
  LET a == ClearProgressInterval(w)
  IN [a EXCEPT !.transcriptionProgress = 0,
               !.isProcessingFile = FALSE]

\* catch block, then finally (page.tsx:263-286)
TranscriptionRejected(w) ==
  LET a == ClearProgressInterval(w)
  IN [a EXCEPT !.transcriptionProgress = 0,
               !.transcriptSegments = << >>,
               !.fullTranscript = NoText,
               !.isProcessingFile = FALSE]

\* The notice the success path raises (page.tsx:258-262): toast() is not state
\* of Home, so the notice is a function of the result
ResolvedNotice(result) ==
  IF ~Truthy(Trim(result.text)) /\ Len(result.segments) = 0
  THEN [title |-> "Processing Note", variant |-> "default"]
  ELSE [title |-> "Processing Complete", variant |-> "default"]

\* error.message of what fileToDataUri or transcribeAudio throws: none, or a text
ErrorMessages == {NoText, <<"e">>}

\* The notice the catch block raises (page.tsx:278-282)
RejectedNotice(message) ==
  [title |-> "Processing Error",
   description |-> <<"Failed to process file: ">>
                     \o (IF Truthy(message) THEN message ELSE <<"Please try again.">>),
   variant |-> "destructive"]

\* page.tsx:147-163; the two setTimeout(..., 0) callbacks are queued
handleFileSelected(c, w, file, canPlay) ==
  IF Truthy(Trim(c.youtubeUrl)) \/ Truthy(c.youtubePlaceholderMessage)
  THEN LET a == handleClearAndReset(c, w, canPlay)
       IN [a EXCEPT !.timeouts = Append(a.timeouts, [assign |-> TRUE, file |-> file])]
  ELSE [w EXCEPT !.selectedFile = file,
                 !.timeouts = Append(w.timeouts, [assign |-> FALSE, file |-> file])]

\* the callback without its setSelectedFile(file)
FileTimeout_NoAssign(c, w, timeout, canPlay) ==
  handleProcessFile(c, w, timeout.file, canPlay)

\* the callback of such a timeout
FileTimeout(c, w, timeout, canPlay) ==
  IF timeout.assign
  THEN handleProcessFile(c, [w EXCEPT !.selectedFile = timeout.file], timeout.file, canPlay)
  ELSE handleProcessFile(c, w, timeout.file, canPlay)

\* page.tsx:166-191
handleYouTubeUrlChange(c, w, newUrl, canPlay) ==
  LET a == [w EXCEPT !.youtubeUrl = newUrl]
  IN IF Truthy(Trim(newUrl))
     THEN LET b == IF c.selectedFile # NoFile \/ c.isProcessingFile
                   THEN handleClearAndReset(c, a, canPlay)
                   ELSE a
              d == [b EXCEPT !.youtubePlaceholderMessage = NoText,
                             !.transcriptSegments = << >>,
                             !.fullTranscript = NoText,
                             !.summary = "",
                             !.audioSrc = NoFile]
          IN seekTo(c, pause(c, d), 0, canPlay)
     ELSE [a EXCEPT !.youtubePlaceholderMessage = NoText]

\* the fixed explanatory text, which quotes the URL
PlaceholderText(url) == <<"Full transcription for YouTube URLs (like ">> \o url

\* handleProcessYouTubeUrl without its clearing of the transcript
handleProcessYouTubeUrl_KeepsTranscript(c, w, canPlay) ==
  IF ~Truthy(Trim(c.youtubeUrl))
  THEN w
  ELSE LET a == IF c.selectedFile # NoFile \/ c.isProcessingFile
                THEN handleClearAndReset(c, w, canPlay)
                ELSE w
           b == ClearProgressInterval(
                  [a EXCEPT !.isProcessingYouTube = TRUE, !.isProcessingFile = FALSE])
           d == [b EXCEPT !.transcriptionProgress = 0,
                          !.audioSrc = NoFile,
                          !.summary = "",
                          !.currentAudioTime = 0]
           e == seekTo(c, pause(c, d), 0, canPlay)
       IN [e EXCEPT !.youtubePlaceholderMessage = PlaceholderText(c.youtubeUrl),
                    !.ytTimeouts = e.ytTimeouts + 1]

\* page.tsx:295-341
handleProcessYouTubeUrl(c, w, canPlay) ==
  IF ~Truthy(Trim(c.youtubeUrl))
  THEN w
  ELSE LET a == IF c.selectedFile # NoFile \/ c.isProcessingFile
                THEN handleClearAndReset(c, w, canPlay)
                ELSE w
           b == ClearProgressInterval(
                  [a EXCEPT !.isProcessingYouTube = TRUE, !.isProcessingFile = FALSE])
           d == [b EXCEPT !.transcriptionProgress = 0,
                          !.audioSrc = NoFile,
                          !.transcriptSegments = << >>,
                          !.fullTranscript = NoText,
                          !.summary = "",
                          !.currentAudioTime = 0]
           e == seekTo(c, pause(c, d), 0, canPlay)
       IN [e EXCEPT !.youtubePlaceholderMessage = PlaceholderText(c.youtubeUrl),
                    !.ytTimeouts = e.ytTimeouts + 1]

\* handleSummarize without its check of the prompt
handleSummarize_NoPromptCheck(c, w) ==
  IF ~Truthy(Trim(c.fullTranscript)) \/ Truthy(c.youtubePlaceholderMessage)
  THEN w
  ELSE [w EXCEPT !.isSummarizing = TRUE,
                 !.summary = "",
                 !.summarizeCalls = Append(w.summarizeCalls,
                     [transcript |-> c.fullTranscript, customPrompt |-> c.summaryPrompt])]

\* handleSummarize without its setIsSummarizing(true)
handleSummarize_NoFlag(c, w) ==
  IF ~Truthy(Trim(c.fullTranscript)) \/ Truthy(c.youtubePlaceholderMessage)
  THEN w
  ELSE IF ~Truthy(Trim(c.summaryPrompt))
  THEN w
  ELSE [w EXCEPT !.summary = "",
                 !.summarizeCalls = Append(w.summarizeCalls,
                     [transcript |-> c.fullTranscript, customPrompt |-> c.summaryPrompt])]

\* page.tsx:344-357, up to the await
handleSummarize(c, w) ==
  IF ~Truthy(Trim(c.fullTranscript)) \/ Truthy(c.youtubePlaceholderMessage)
  THEN w
  ELSE IF ~Truthy(Trim(c.summaryPrompt))
  THEN w
  ELSE [w EXCEPT !.isSummarizing = TRUE,
                 !.summary = "",
                 !.summarizeCalls = Append(w.summarizeCalls,
                     [transcript |-> c.fullTranscript, customPrompt |-> c.summaryPrompt])]

\* the try block after the await with the finally block left out
SummarizeResolved_NoFinally(w, resultSummary) ==
  [w EXCEPT !.summary = resultSummary]

\* page.tsx:363-375
SummarizeResolved(w, resultSummary) ==
  [w EXCEPT !.summary = resultSummary, !.isSummarizing = FALSE]

SummarizeRejected(w) == [w EXCEPT !.isSummarizing = FALSE]

\* handleSegmentClick with its condition inverted
handleSegmentClick_InvertedGuard(c, w, startTime, canPlay) ==
  IF ~Truthy(c.youtubePlaceholderMessage) /\ c.audioSrc # NoFile
  THEN w
  ELSE seekTo(c, w, startTime, canPlay)

\* page.tsx:378-382; audioPlayerRef.current is set once the player has mounted
handleSegmentClick(c, w, startTime, canPlay) ==
  IF ~Truthy(c.youtubePlaceholderMessage) /\ c.audioSrc # NoFile
  THEN seekTo(c, w, startTime, canPlay)
  ELSE w

\* ------------------------------------------------------ PromptSuggestions
\* part_001:136-140
handleCustomPromptEntryChange(c, w, index, field, value) ==
  LET entry == c.currentCustomPromptEntries[index]
      changed == IF field = "name" THEN [entry EXCEPT !.name = value]
                 ELSE [entry EXCEPT !.content = value]
  IN [w EXCEPT !.currentCustomPromptEntries =
                  [c.currentCustomPromptEntries EXCEPT ![index] = changed]]

\* part_001:142-153; the same list goes to the local storage
handleSaveCustomPrompt(c, w, index) ==
  [w EXCEPT !.savedCustomPrompts =
               [c.savedCustomPrompts EXCEPT ![index] = c.currentCustomPromptEntries[index]]]

\* part_001:155-162, with onPromptSelect = setSummaryPrompt (page.tsx:575)
handleUseCustomPrompt(c, w, index) ==
  IF Truthy(Trim(c.currentCustomPromptEntries[index].content))
  THEN [w EXCEPT !.summaryPrompt = c.currentCustomPromptEntries[index].content]
  ELSE w

\* ----------------------------------------------------- FileUpload handlers
UploadPartial == 50
UploadComplete == 100

\* handleFileChange / handleDrop with a valid file: startUploadSimulation
\* (file-upload.tsx:96-101).  The interval keeps the onFileSelect it was created
\* with, that is Home's handleFileSelected of the current render and the
\* youtubeUrl and placeholder message that one reads.
startUploadSimulation(c, w, file) ==
  IF fileUploadDisabled(c) \/ c.uploadProgress # NoProgress
  THEN w
  ELSE [w EXCEPT !.uploadingFile = file,
                 !.uploadProgress = 0,
                 !.sims = Append(w.sims,
                     [file |-> file, youtubeUrl |-> c.youtubeUrl,
                      youtubePlaceholderMessage |-> c.youtubePlaceholderMessage])]

\* One tick of a simulation's interval (file-upload.tsx:102-124).  The random
\* step is not modelled as a number: a tick either stays below 100 or reaches it,
\* and then clears its own interval and hands the file to onFileSelect.  The
\* 500 ms timeout it leaves clears the progress only if uploadingFile is still
\* this file, which it never is: the effect on [currentFile, uploadingFile] has
\* set uploadingFile to null right after the simulation started.
UploadTick(c, w, i, done, canPlay) ==
  IF done
  THEN LET sim == w.sims[i]
           closure == [c EXCEPT !.youtubeUrl = sim.youtubeUrl,
                                !.youtubePlaceholderMessage = sim.youtubePlaceholderMessage]
           a == [w EXCEPT !.uploadProgress = UploadComplete, !.sims = RemoveAt(w.sims, i)]
       IN handleFileSelected(closure, a, sim.file, canPlay)
  ELSE [w EXCEPT !.uploadProgress = UploadPartial]

\* file-upload.tsx:172-180, with onRemoveFile = handleClearAndReset
handleRemoveFile(c, w, canPlay) ==
  IF fileUploadDisabled(c)
  THEN w
  ELSE handleClearAndReset(c,
         [w EXCEPT !.uploadingFile = NoFile, !.uploadProgress = NoProgress], canPlay)

\* The remove button is rendered only for displayFile (file-upload.tsx:182-183, 243)
displayFile(w) ==
  /\ ~(w.uploadProgress # NoProgress /\ w.uploadingFile # NoFile)
  /\ w.selectedFile # NoFile
  /\ ~fileUploadDisabled(w)

\* ---------------------------------------------------------------- actions
\* Every action is one task followed by the render and the effects it causes.
\* (the render is computed once, then committed)
Task(w) ==
  /\ \E settled \in {Settle(World, w)} : Commit(settled)
  /\ UNCHANGED editorVars

\* play() can only start playback once the element has data, and a handler only
\* tries it on a loaded, paused player
CanPlayChoices == IF duration > 0 /\ ~isPlaying THEN BOOLEAN ELSE {FALSE}

Pending == Len(sims) + Len(timeouts) + Len(calls) + ytTimeouts + Len(summarizeCalls)
RoomForPending == Pending < MaxPending

ClearAndReset ==
  \E canPlay \in CanPlayChoices : Task(handleClearAndReset(World, World, canPlay))

\* handleFileSelected reads youtubeUrl and youtubePlaceholderMessage from the
\* render it was created in.  FileUpload calls it from an interval that keeps
\* the render in which the simulation started, where the URL was blank and no
\* placeholder was shown (the control is disabled otherwise); a direct call
\* sees the current render.
Closures ==
  {World, [World EXCEPT !.youtubeUrl = NoText, !.youtubePlaceholderMessage = NoText]}

FileSelectedFrom(file, closure) ==
  \E canPlay \in CanPlayChoices :
    /\ RoomForPending
    /\ Task(handleFileSelected(closure, World, file, canPlay))

FileSelected == \E file \in Files, closure \in Closures : FileSelectedFrom(file, closure)

\* onChange of the URL field: the value differs from the one rendered
UrlChangeTo(newUrl) ==
  \E canPlay \in CanPlayChoices :
    /\ newUrl # youtubeUrl
    /\ Task(handleYouTubeUrlChange(World, World, newUrl, canPlay))

YouTubeUrlChange == \E newUrl \in UrlTexts : UrlChangeTo(newUrl)

ProcessYouTubeUrl ==
  \E canPlay \in CanPlayChoices :
    /\ RoomForPending
    /\ Task(handleProcessYouTubeUrl(World, World, canPlay))

\* the callback of the 500 ms timeout without its setIsProcessingYouTube(false)
YouTubeTimeout_KeepsFlag ==
  /\ ytTimeouts > 0
  /\ Task([World EXCEPT !.ytTimeouts = ytTimeouts - 1])

\* setTimeout(() => setIsProcessingYouTube(false), 500)
YouTubeTimeout ==
  /\ ytTimeouts > 0
  /\ Task([World EXCEPT !.isProcessingYouTube = FALSE, !.ytTimeouts = ytTimeouts - 1])

\* the oldest setTimeout(..., 0) callback of handleFileSelected
FileTimeoutFires ==
  \E canPlay \in CanPlayChoices :
    /\ timeouts # << >>
    /\ Task(FileTimeout(World, [World EXCEPT !.timeouts = Tail(timeouts)],
                        Head(timeouts), canPlay))

ProgressIntervalTick ==
  \E t \in TimerIds :
    /\ timers[t] # Cleared
    /\ Task(ProgressTick(World, t))

\* await fileToDataUri, then await transcribeAudio (page.tsx:238-240): one
\* suspension, since nothing can observe the point between the two awaits.
ResolveCall(i, result) ==
  Task(TranscriptionResolved([World EXCEPT !.calls = RemoveAt(calls, i)], result))

\* fileToDataUri or transcribeAudio throws
RejectCall(i) ==
  Task(TranscriptionRejected([World EXCEPT !.calls = RemoveAt(calls, i)]))

TranscriptionResolves ==
  \E i \in 1 .. Len(calls), result \in TranscribeResults : ResolveCall(i, result)

TranscriptionRejects == \E i \in 1 .. Len(calls) : RejectCall(i)

SummaryPromptChange ==
  \E text \in PromptTexts :
    /\ text # summaryPrompt
    /\ Task([World EXCEPT !.summaryPrompt = text])

Summarize ==
  /\ RoomForPending
  /\ Task(handleSummarize(World, World))

SummarizeResolves ==
  \E i \in 1 .. Len(summarizeCalls), resultSummary \in SummaryResults :
    Task(SummarizeResolved([World EXCEPT !.summarizeCalls = RemoveAt(summarizeCalls, i)],
                           resultSummary))

SummarizeRejects ==
  \E i \in 1 .. Len(summarizeCalls) :
    Task(SummarizeRejected([World EXCEPT !.summarizeCalls = RemoveAt(summarizeCalls, i)]))

PickFile ==
  \E file \in Files :
    /\ file # selectedFile
    /\ RoomForPending
    /\ ~fileUploadDisabled(World) /\ uploadProgress = NoProgress
    /\ Task(startUploadSimulation(World, World, file))

UploadIntervalTick ==
  \E i \in 1 .. Len(sims), done \in BOOLEAN, canPlay \in CanPlayChoices :
    /\ Task(UploadTick(World, World, i, done, canPlay))

RemoveFile ==
  \E canPlay \in CanPlayChoices :
    /\ displayFile(World)
    /\ Task(handleRemoveFile(World, World, canPlay))

\* media element events (audio-player.tsx:89-101, 153-158) and the play button
LoadedMetadata ==
  /\ audioSrc # NoFile /\ duration = 0
  /\ Task([World EXCEPT !.duration = DurationOf(audioSrc)])

PlayPauseClick ==
  \E canPlay \in CanPlayChoices :
    /\ audioSrc # NoFile /\ duration > 0
    /\ Task(handlePlayPause(World, World, canPlay))

\* playback advances, or a seek is reported; Home's handleAudioTimeUpdate
TimeUpdate ==
  \E time \in 0 .. duration :
    /\ \/ isPlaying /\ time = currentTime + 1 /\ time <= duration
       \/ time = currentTime /\ currentAudioTime # currentTime
    /\ Task([World EXCEPT !.currentTime = time, !.currentAudioTime = time])

Ended ==
  /\ isPlaying /\ currentTime = duration
  /\ Task([World EXCEPT !.audioPaused = TRUE, !.currentTime = duration])

\* a click on one of the segments the editor shows (transcript-editor.tsx:40-42, 68)
SegmentClickOn(i, canPlay) ==
  Task(handleSegmentClick(World, World, transcriptSegments[i].start, canPlay))

SegmentClick ==
  \E i \in 1 .. Len(transcriptSegments), canPlay \in CanPlayChoices : SegmentClickOn(i, canPlay)

TranscriptionStep ==
  FileTimeoutFires \/ ProgressIntervalTick
    \/ TranscriptionResolves \/ TranscriptionRejects
SummaryStep == SummaryPromptChange \/ Summarize \/ SummarizeResolves \/ SummarizeRejects
PlayerStep == LoadedMetadata \/ PlayPauseClick \/ TimeUpdate \/ Ended \/ SegmentClick

\* Home as its handlers define it: each handler may be called at any time.
\* Whatever FileUpload does to Home is a call of handleFileSelected or of
\* handleClearAndReset, so its own state stays out of this specification.
Next ==
  \/ ClearAndReset
  \/ FileSelected
  \/ YouTubeUrlChange
  \/ ProcessYouTubeUrl
  \/ YouTubeTimeout
  \/ TranscriptionStep
  \/ SummaryStep
  \/ PlayerStep

Spec == Init /\ [][Next]_vars

\* The same, with the promise of a transcription call in flight settling in the
\* end, whatever else happens.  A step that takes one call out of calls is a
\* step of TranscriptionResolves or of TranscriptionRejects, and one is possible
\* whenever a call is in flight.
CallSettles == \E i \in 1 .. Len(calls) : calls' = RemoveAt(calls, i)
LiveSpec == Spec /\ WF_calls(CallSettles)

\* Home with the 500 ms timeout of a processed URL firing in the end: a timeout
\* that has been set runs its callback.  A step that takes one timeout out of
\* ytTimeouts is a step of YouTubeTimeout.
UrlTimeoutFires == ytTimeouts > 0 /\ ytTimeouts' = ytTimeouts - 1
UrlLiveSpec == Spec /\ WF_ytTimeouts(UrlTimeoutFires)

\* The transcript editor on its own, rendered with any segments and any
\* playback time, and rendered again whenever a prop changes.
InitEditor ==
  /\ Mounted
  /\ segments \in EditorSegmentLists
  /\ currentTimeProp \in EditorTimes
  /\ activeSegments = ActiveSpans(segments, currentTimeProp)

EditorTimeChanges ==
  \E time \in EditorTimes :
    /\ time # currentTimeProp
    /\ currentTimeProp' = time
    /\ activeSegments' = ActiveSpans(segments, time)
    /\ UNCHANGED <<segments, homeVars, asyncVars, playerVars, uploadVars, promptVars>>

EditorSegmentsChange ==
  \E segs \in EditorSegmentLists :
    /\ segs # segments
    /\ segments' = segs
    /\ activeSegments' = ActiveSpans(segs, currentTimeProp)
    /\ UNCHANGED <<currentTimeProp, homeVars, asyncVars, playerVars, uploadVars, promptVars>>

NextEditor == EditorTimeChanges \/ EditorSegmentsChange

SpecEditor == InitEditor /\ [][NextEditor]_vars

\* The player with all its controls, under a Home that selects files, processes
\* them and resets.  The sliders and the mute button are rendered only while
\* there is a source (audio-player.tsx:249); the progress slider is disabled
\* until the duration is known; the volume slider shows 0 while muted.
SliderSeek ==
  \E newTime \in 0 .. duration :
    /\ audioSrc # NoFile /\ duration > 0
    /\ newTime # currentTime
    /\ Task(handleSeek(World, World, newTime))

\* the rewind and fast-forward buttons, disabled until the duration is known
Skip ==
  \E amount \in SkipAmounts :
    /\ audioSrc # NoFile /\ duration > 0
    /\ Task(handleSkip(World, World, amount))

VolumeChange ==
  \E newVolume \in Volumes :
    /\ audioSrc # NoFile
    /\ newVolume # (IF isMuted THEN 0 ELSE volume)
    /\ Task(handleVolumeChange(World, World, newVolume))

MuteToggle ==
  /\ audioSrc # NoFile
  /\ Task(toggleMute(World, World))

VolumeStep == VolumeChange \/ MuteToggle

NextPlayer ==
  \/ ClearAndReset
  \/ FileSelected
  \/ TranscriptionStep
  \/ PlayerStep
  \/ SliderSeek
  \/ Skip
  \/ VolumeStep

SpecPlayer == Init /\ [][NextPlayer]_vars

\* The custom-prompt slots, under a Home that processes files, summarizes and
\* resets.
FilledFields ==
  Cardinality({i \in 1 .. MAX_CUSTOM_PROMPTS : Truthy(currentCustomPromptEntries[i].name)})
    + Cardinality({i \in 1 .. MAX_CUSTOM_PROMPTS :
                     Truthy(currentCustomPromptEntries[i].content)})

CustomPromptEntryChange ==
  \E index \in 1 .. MAX_CUSTOM_PROMPTS, field \in CustomPromptFields, value \in PromptTexts :
    /\ value # (IF field = "name" THEN currentCustomPromptEntries[index].name
                ELSE currentCustomPromptEntries[index].content)
    /\ Truthy(value) => FilledFields < MaxFilledFields
    /\ Task(handleCustomPromptEntryChange(World, World, index, field, value))

\* the save button is enabled while the entry differs from the saved one
SaveCustomPrompt ==
  \E index \in 1 .. MAX_CUSTOM_PROMPTS :
    /\ currentCustomPromptEntries[index] # savedCustomPrompts[index]
    /\ Task(handleSaveCustomPrompt(World, World, index))

\* the use button is enabled while the entry has a content
UseCustomPrompt ==
  \E index \in 1 .. MAX_CUSTOM_PROMPTS :
    /\ Truthy(Trim(currentCustomPromptEntries[index].content))
    /\ Task(handleUseCustomPrompt(World, World, index))

CustomPromptStep == CustomPromptEntryChange \/ SaveCustomPrompt \/ UseCustomPrompt

NextPrompts ==
  \/ ClearAndReset
  \/ FileSelected
  \/ FileTimeoutFires
  \/ TranscriptionResolves
  \/ SummaryStep
  \/ CustomPromptStep

SpecPrompts == Init /\ [][NextPrompts]_vars

\* The page as the user drives it: a control fires only while it is enabled
\* (page.tsx:419, 503, 507) and files arrive through FileUpload.
UIClearAndReset == ~clearAndResetDisabled(World) /\ ClearAndReset
UIYouTubeUrlChange == ~youtubeInputDisabled(World) /\ YouTubeUrlChange
UIProcessYouTubeUrl == ~processYoutubeButtonDisabled(World) /\ ProcessYouTubeUrl
FileUploadStep == PickFile \/ UploadIntervalTick \/ RemoveFile
\* the prompt field and the summarize button (page.tsx:591, 595)
UISummaryPromptChange == ~featuresRequiringTranscriptDisabled(World) /\ SummaryPromptChange
UISummarize ==
  /\ ~(featuresRequiringTranscriptDisabled(World) \/ ~Truthy(Trim(summaryPrompt)))
  /\ Summarize
UISummaryStep ==
  UISummaryPromptChange \/ UISummarize \/ SummarizeResolves \/ SummarizeRejects

NextUI ==
  \/ UIClearAndReset
  \/ UIYouTubeUrlChange
  \/ UIProcessYouTubeUrl
  \/ YouTubeTimeout
  \/ TranscriptionStep
  \/ FileUploadStep
  \/ UISummaryStep

SpecUI == Init /\ [][NextUI]_vars

\* ------------------------------------------------------------------ claims

NoLiveProgressTimer ==
  /\ progressIntervalRef = NoTimer
  /\ \A t \in TimerIds : timers[t] = Cleared

CanonicalEmpty ==
  /\ NoLiveProgressTimer
  /\ ~isProcessingFile
  /\ ~isProcessingYouTube
  /\ transcriptionProgress = 0
  /\ selectedFile = NoFile
  /\ youtubeUrl = NoText
  /\ youtubePlaceholderMessage = NoText
  /\ transcriptSegments = << >>
  /\ fullTranscript = NoText
  /\ summary = ""
  /\ summaryPrompt = NoText
  /\ aiSuggestions = << >>
  /\ currentAudioTime = 0
  /\ audioSrc = NoFile

StaleCallSettles ==
  \E i \in 1 .. Len(calls) :
    /\ calls[i].superseded
    /\ \/ \E result \in TranscribeResults : ResolveCall(i, result)
       \/ RejectCall(i)

\* C2: after a full reset (the reset button, or the reset a mode switch runs),
\* the completion of a transcription call started before it changes none of
\* transcriptSegments, fullTranscript, transcriptionProgress, isProcessingFile.
StaleCompletionChangesNothing ==
  [][StaleCallSettles =>
       UNCHANGED <<transcriptSegments, fullTranscript, transcriptionProgress,
                   isProcessingFile>>]_vars

\* C3: when the URL field is changed to a text that is not blank while a file
\* is selected or being processed, the step resets the form (progress 0, no
\* live progress timer, no selected file) and leaves youtubeUrl equal to the
\* text that was typed.
UrlTypedOverFileIsKept ==
  [][\A newUrl \in UrlTexts :
        (/\ Truthy(Trim(newUrl))
         /\ selectedFile # NoFile \/ isProcessingFile
         /\ UrlChangeTo(newUrl))
        => (/\ transcriptionProgress' = 0
            /\ NoLiveProgressTimer'
            /\ selectedFile' = NoFile
            /\ youtubeUrl' = newUrl)]_vars

InputsNeverBothEnabled ==
  /\ fileUploadDisabled(World) \/ processYoutubeButtonDisabled(World)
  /\ Truthy(Trim(youtubeUrl)) => fileUploadDisabled(World)
  /\ selectedFile # NoFile =>
       youtubeInputDisabled(World) /\ processYoutubeButtonDisabled(World)
  /\ isProcessingFile \/ isProcessingYouTube =>
       /\ fileUploadDisabled(World)
       /\ youtubeInputDisabled(World)
       /\ processYoutubeButtonDisabled(World)

\* C5, its case: a URL is typed, nothing is processing, and the process-URL
\* button is the enabled one.
ProcessUrlButtonEnabled ==
  /\ Truthy(Trim(youtubeUrl))
  /\ ~processYoutubeButtonDisabled(World)

\* C6: isProcessingFile and isProcessingYouTube are never both true.
ProcessingFlagsExclusive == ~(isProcessingFile /\ isProcessingYouTube)

\* C6, its case: a file attempt is processing while the 500 ms timeout of a
\* processed URL is still pending.
FileProcessingWhileUrlTimeoutPending == isProcessingFile /\ ytTimeouts > 0

\* The newest attempt, as long as neither its call has settled nor a reset run
CurrentAttemptInFlight ==
  \E i \in 1 .. Len(calls) : calls[i].latest /\ ~calls[i].superseded

\* C7: transcriptionProgress is always within [0, 100]; while the call of the
\* current attempt has not settled it is at most 95; and 100 is written only
\* by a successful completion.
ProgressWithinBounds ==
  [][/\ transcriptionProgress' \in 0 .. ProgressDone
     /\ CurrentAttemptInFlight' => transcriptionProgress' <= ProgressCap
     /\ (transcriptionProgress' = ProgressDone /\ transcriptionProgress # ProgressDone)
          => TranscriptionResolves]_vars

\* C8: across two consecutive states with isProcessingFile true,
\* transcriptionProgress does not decrease.
ProgressMonotoneWhileProcessing ==
  [][isProcessingFile /\ isProcessingFile'
       => transcriptionProgress' >= transcriptionProgress]_vars

\* C9: the step in which a transcription call settles leaves
\* transcriptionProgress at exactly 100 if the call resolved and at exactly 0
\* if it (or the conversion to a data URI) threw.
SettleSetsProgress ==
  [][/\ TranscriptionResolves => transcriptionProgress' = ProgressDone
     /\ TranscriptionRejects => transcriptionProgress' = 0]_vars

\* C9, its case: a call has resolved with a transcript; the progress is 100
\* and the attempt is over.
ResolvedAtFullProgress ==
  /\ transcriptionProgress = ProgressDone
  /\ fullTranscript # NoText
  /\ ~isProcessingFile
  /\ NoLiveProgressTimer

\* C10: with every transcription call settling in the end, a state in which
\* isProcessingFile is true is followed by one in which it is false.
ProcessingEventuallyEnds == isProcessingFile ~> ~isProcessingFile

\* C10, its case: an attempt is processing and its call is in flight.
ProcessingWithCallInFlight == isProcessingFile /\ calls # << >>

\* C11: the step in which a transcription call resolves leaves
\* transcriptSegments and fullTranscript equal to the segments and the text of
\* the result (the empty list and the empty string for a result without
\* content), the summary empty and no progress timer live.
ResolveReplacesTranscript ==
  [][\A i \in 1 .. Len(calls), result \in TranscribeResults :
        ResolveCall(i, result)
        => (/\ transcriptSegments' = result.segments
            /\ fullTranscript' = result.text
            /\ summary' = ""
            /\ NoLiveProgressTimer')]_vars

\* C12: a transcription call that throws and one that resolves with no text
\* and no segments both end with isProcessingFile false, an empty transcript
\* and no segments; the failure raises a destructive notice that carries the
\* error message, the empty success a notice that is not destructive; after a
\* failure the transcript is never non-empty.
FailureAndEmptySuccessDiffer ==
  [][/\ \A i \in 1 .. Len(calls) :
          (RejectCall(i) \/ ResolveCall(i, EmptyResult))
          => (/\ ~isProcessingFile'
              /\ fullTranscript' = NoText
              /\ transcriptSegments' = << >>)
     /\ \A message \in ErrorMessages :
          LET notice == RejectedNotice(message)
          IN /\ notice.variant = "destructive"
             /\ \E k \in 1 .. Len(notice.description) + 1 :
                  SubSeq(notice.description, k, Len(notice.description)) = message
             /\ ResolvedNotice(EmptyResult).variant # notice.variant
     /\ ResolvedNotice(EmptyResult).title = "Processing Note"]_vars

\* C12, its case: an attempt has failed: a file is selected, nothing is queued
\* or in flight, and the progress is back at 0 with an empty transcript.
FailedAttemptLeftEmpty ==
  /\ selectedFile # NoFile
  /\ timeouts = << >> /\ calls = << >>
  /\ ~isProcessingFile
  /\ transcriptionProgress = 0
  /\ fullTranscript = NoText /\ transcriptSegments = << >>

\* C13: after a run of the full reset isSummarizing is false, also when a
\* summarization call was in flight at the time.
ResetClearsSummarizing == [][ClearAndReset => ~isSummarizing']_vars

\* C14: the full reset is idempotent.  From any state, a second run of
\* handleClearAndReset right after the first, in a task of its own or in the
\* same task, ends in the state the first run alone ends in.
ResetIsIdempotent ==
  [][ClearAndReset =>
       /\ \A canPlay \in BOOLEAN :
            Settle(World', handleClearAndReset(World', World', canPlay)) = World'
       /\ \A canPlay \in CanPlayChoices :
            Task(handleClearAndReset(World, World, canPlay))
            => Settle(World, handleClearAndReset(World,
                               handleClearAndReset(World, World, canPlay), canPlay))
                 = World']_vars

\* C14, its case: the reset has run over an attempt in flight, and the player
\* it paused and rewound has lost its source.
ResetOverAttemptInFlight ==
  /\ CanonicalEmpty
  /\ \E i \in 1 .. Len(calls) : calls[i].superseded /\ calls[i].latest
  /\ ~isPlaying /\ audioPaused /\ currentTime = 0 /\ duration = 0

\* C15: after a run of the full reset, and after the step in which a
\* file-processing attempt starts, the player is not playing and its position
\* is 0, whatever state it was in before.
ResetAndEntryStopPlayer ==
  [][(ClearAndReset \/ FileTimeoutFires)
       => (~isPlaying' /\ audioPaused' /\ currentTime' = 0)]_vars

\* C16: a run of handleProcessYouTubeUrl with a URL that is not blank starts no
\* transcription call and ends with the placeholder message set, no segments,
\* an empty transcript, an empty summary, no audio source, isProcessingFile
\* false and no live progress timer.
UrlProcessingDoesNoWork ==
  [][(Truthy(Trim(youtubeUrl)) /\ ProcessYouTubeUrl)
       => (/\ Len(calls') = Len(calls)
           /\ timeouts' = timeouts
           /\ youtubePlaceholderMessage' = PlaceholderText(youtubeUrl)
           /\ Truthy(youtubePlaceholderMessage')
           /\ transcriptSegments' = << >>
           /\ fullTranscript' = NoText
           /\ summary' = ""
           /\ audioSrc' = NoFile
           /\ ~isProcessingFile'
           /\ NoLiveProgressTimer')]_vars

\* C16, its case: a URL has been processed while a transcription call started
\* earlier was still in flight.
UrlProcessedOverCallInFlight ==
  /\ Truthy(youtubePlaceholderMessage)
  /\ isProcessingYouTube
  /\ ytTimeouts > 0
  /\ calls # << >>
  /\ fullTranscript = NoText
  /\ audioSrc = NoFile

\* C17: with the 500 ms timeout firing in the end, a state in which
\* isProcessingYouTube is true is followed by one in which it is false,
\* whatever else happens in between.
UrlProcessingEventuallyEnds == isProcessingYouTube ~> ~isProcessingYouTube

\* C17, its case: a URL has been processed, its placeholder is shown and the
\* timeout that ends the indication is pending.
UrlProcessingIndicated ==
  /\ isProcessingYouTube
  /\ ytTimeouts > 0
  /\ Truthy(youtubePlaceholderMessage)

\* C18: a validation failure changes no state and starts no call.  In every
\* reachable state, handleProcessYouTubeUrl with a blank URL, and
\* handleSummarize with a blank transcript, an active placeholder or a blank
\* prompt, leave the whole state (the calls in flight included) as it is.
ValidationFailureChangesNothing ==
  /\ ~Truthy(Trim(youtubeUrl))
       => \A canPlay \in BOOLEAN :
            Settle(World, handleProcessYouTubeUrl(World, World, canPlay)) = World
  /\ (\/ ~Truthy(Trim(fullTranscript))
      \/ Truthy(youtubePlaceholderMessage)
      \/ ~Truthy(Trim(summaryPrompt)))
       => Settle(World, handleSummarize(World, World)) = World

\* C18, its case: a transcript is there and no placeholder, and only the
\* missing prompt makes handleSummarize refuse; the URL is blank, not empty.
OnlyPromptMissing ==
  /\ Truthy(Trim(fullTranscript))
  /\ ~Truthy(youtubePlaceholderMessage)
  /\ ~Truthy(Trim(summaryPrompt))
  /\ Truthy(youtubeUrl) /\ ~Truthy(Trim(youtubeUrl))

\* C19: the step in which a summarization call resolves leaves summary equal
\* to the returned string and isSummarizing false, and changes none of
\* fullTranscript, transcriptSegments and summaryPrompt.
SummaryResolveWritesSummary ==
  [][\A i \in 1 .. Len(summarizeCalls), resultSummary \in SummaryResults :
        Task(SummarizeResolved(
               [World EXCEPT !.summarizeCalls = RemoveAt(summarizeCalls, i)],
               resultSummary))
        => (/\ summary' = resultSummary
            /\ ~isSummarizing'
            /\ UNCHANGED <<fullTranscript, transcriptSegments, summaryPrompt>>)]_vars

\* C19, its case: a summarization call has resolved: its summary is shown next
\* to the transcript and the prompt, and nothing is summarizing.
SummaryShown ==
  /\ summary \in SummaryResults
  /\ ~isSummarizing
  /\ summarizeCalls = << >>
  /\ Truthy(fullTranscript)
  /\ Truthy(summaryPrompt)

\* No capability call is pending: no transcription and no summarization call
NoCallPending == calls = << >> /\ summarizeCalls = << >>

TranscriptClearedOrReplaced ==
  \/ FileTimeoutFires
  \/ TranscriptionResolves
  \/ TranscriptionRejects
  \/ \E newUrl \in UrlTexts : Truthy(Trim(newUrl)) /\ UrlChangeTo(newUrl)
  \/ Truthy(Trim(youtubeUrl)) /\ ProcessYouTubeUrl
  \/ ClearAndReset

\* C21: every step that clears or replaces the transcript leaves the whole
\* summary state empty: the summary, the summary prompt and the list of AI
\* suggestions.
TranscriptChangeClearsSummaryState ==
  [][TranscriptClearedOrReplaced
       => (summary' = "" /\ summaryPrompt' = NoText /\ aiSuggestions' = << >>)]_vars

\* C22: URL mode never holds an audio source.  In every reachable state in
\* which the placeholder message is set, audioSrc is null and no file is
\* selected.
PlaceholderHoldsNoAudio ==
  Truthy(youtubePlaceholderMessage) => (audioSrc = NoFile /\ selectedFile = NoFile)

\* C22, its case: a URL was processed over a selected file whose attempt was
\* in flight; the placeholder is shown, the indication has ended, and the call
\* of that attempt has not settled.
PlaceholderOverSupersededAttempt ==
  /\ Truthy(youtubePlaceholderMessage)
  /\ ~isProcessingYouTube
  /\ \E i \in 1 .. Len(calls) : calls[i].superseded
  /\ audioSrc = NoFile /\ selectedFile = NoFile

SegmentActiveWithinTolerance ==
  /\ activeSegments \subseteq 1 .. Len(segments)
  /\ \A i \in 1 .. Len(segments) :
       i \in activeSegments
         <=> /\ currentTimeProp # Undefined
             /\ segments[i].start <= currentTimeProp
             /\ currentTimeProp <= segments[i].end + 10
  /\ \A i \in 1 .. Len(segments) :
       (segments[i].start = 200 /\ segments[i].end = 500)
         => /\ currentTimeProp = 505 => i \in activeSegments
            /\ currentTimeProp = 520 => i \notin activeSegments
  /\ currentTimeProp = Undefined => activeSegments = {}

\* C24, its case: the editor is rendered at 5.05 s and the segment from 2.0 to
\* 5.0 is the one marked active, the one that starts at 5.0 too.
ActivePastSegmentEnd ==
  /\ currentTimeProp = 505
  /\ Len(segments) = 2
  /\ segments[1].start = 200 /\ segments[1].end = 500
  /\ segments[2].start = 500
  /\ activeSegments = {1, 2}

\* C25: a click on a segment seeks to the segment's start only when there is an
\* audio source and no placeholder.  In every reachable state and for every
\* segment shown: with the placeholder shown or audioSrc null the click changes
\* neither the player's position nor whether it plays (it changes nothing at
\* all); with a source, no placeholder and a loaded player, the position after
\* the click is the segment's start and the player plays (unless the element
\* had no data to play and was reloaded).
SegmentClickSeeksOnlyWithAudio ==
  \A i \in 1 .. Len(transcriptSegments), canPlay \in CanPlayChoices :
    LET startTime == transcriptSegments[i].start
        after == Settle(World, handleSegmentClick(World, World, startTime, canPlay))
    IN /\ (Truthy(youtubePlaceholderMessage) \/ audioSrc = NoFile)
            => (/\ after.currentTime = currentTime
                /\ after.isPlaying = isPlaying
                /\ after.audioPaused = audioPaused
                /\ after = World)
       /\ (/\ ~Truthy(youtubePlaceholderMessage) /\ audioSrc # NoFile
           /\ duration > 0
           /\ isPlaying \/ canPlay)
            => (/\ after.currentTime = Clamp(0, duration, startTime)
                /\ after.isPlaying)

\* C25, its case: a click on the second segment has moved a loaded player to
\* that segment's start; no time update has reported the new position yet.
SeekBySegmentClick ==
  /\ audioSrc # NoFile /\ ~Truthy(youtubePlaceholderMessage)
  /\ Len(transcriptSegments) = 2
  /\ currentTime = transcriptSegments[2].start
  /\ currentAudioTime = 0
  /\ isPlaying

\* C26: volume and mute are independent of playing and pausing.  A change of
\* the volume and a toggle of mute leave isPlaying, currentTime and duration
\* unchanged; play, pause, a seek (by the slider, by a click on a segment, by
\* the reset or the entry of an attempt) and a switch of the source leave
\* volume and isMuted unchanged.
\* (Each half is stated by its contrapositive: a step that changes one axis is
\* no step of the other.)
VolumeIndependentOfPlayback ==
  [][/\ ~UNCHANGED <<isPlaying, currentTime, duration, audioPaused>> => ~VolumeStep
     /\ ~UNCHANGED <<volume, isMuted>>
          => ~(PlayerStep \/ SliderSeek \/ ClearAndReset \/ FileSelected
                 \/ TranscriptionStep)]_vars

\* C26, its case: the player plays in the middle of a file, muted, with the
\* volume at a half.
PlayingMutedAtHalfVolume ==
  /\ isPlaying /\ currentTime > 0 /\ currentTime < duration
  /\ isMuted /\ volume = UnmuteVolume

\* Every entity of the page at its value after mount: the empty form, nothing
\* summarizing, and the player stopped at 0 with its volume full and not muted
EntitiesAtMount ==
  /\ CanonicalEmpty
  /\ ~isSummarizing
  /\ selectedAiPrompt = ""
  /\ ~isPlaying /\ currentTime = 0 /\ duration = 0
  /\ volume = FullVolume /\ ~isMuted

\* C27: the custom-prompt slots are the only state that survives a full reset.
\* A run of handleClearAndReset leaves every saved slot and every slot being
\* edited as it was, and every other entity at its value after mount.
ResetKeepsOnlyPromptSlots ==
  [][ClearAndReset
       => (/\ UNCHANGED <<savedCustomPrompts, currentCustomPromptEntries>>
           /\ EntitiesAtMount')]_vars

\* C28: at most one progress timer is live at any time, and a live timer is
\* the one progressIntervalRef holds: no handle is overwritten or dropped while
\* its timer is live, however many attempts overlap.
AtMostOneProgressTimer ==
  /\ \A t \in TimerIds : timers[t] # Cleared => progressIntervalRef = t
  /\ Cardinality({t \in TimerIds : timers[t] # Cleared}) <= 1

\* C28, its case: a second attempt was started while the call of the first was
\* in flight; the one live timer is the second attempt's, and it has ticked.
OneTimerForTwoAttempts ==
  /\ Len(calls) = 2
  /\ \A i \in 1 .. Len(calls) : ~calls[i].superseded
  /\ progressIntervalRef # NoTimer
  /\ timers[progressIntervalRef] > 0
  /\ Cardinality({t \in TimerIds : timers[t] # Cleared}) = 1

\* C29: after a full reset, after the processing of a URL and after the step in
\* which a transcription call settles, no progress timer is live; a tick comes
\* from a live timer only, so none changes transcriptionProgress until a new
\* attempt starts one; and cancelling with no timer live, or cancelling a
\* second time, changes nothing.
CancelledTimerStaysCancelled ==
  [][/\ (\/ ClearAndReset
          \/ (Truthy(Trim(youtubeUrl)) /\ ProcessYouTubeUrl)
          \/ TranscriptionResolves
          \/ TranscriptionRejects) => NoLiveProgressTimer'
     /\ NoLiveProgressTimer =>
          (~ProgressIntervalTick /\ ClearProgressInterval(World) = World)
     /\ (NoLiveProgressTimer /\ ~NoLiveProgressTimer') => Len(calls') = Len(calls) + 1
     /\ ClearProgressInterval(ClearProgressInterval(World))
          = ClearProgressInterval(World)]_vars

\* C29, its case: the call of an earlier attempt has resolved while the newest
\* attempt is still in flight; no timer is live any more.
SettledUnderNewerAttempt ==
  /\ NoLiveProgressTimer
  /\ transcriptionProgress = ProgressDone
  /\ CurrentAttemptInFlight
  /\ timeouts = << >>

\* C30: the three phases of an attempt are ordered.  The step that invokes the
\* transcription capability ends with the previous transcript, summary and
\* progress cleared, and a result or a failure is applied only by a later
\* step, one that takes a call in flight out: the progress becomes 100, or the
\* transcript non-empty, in no other step, and the step that starts a call
\* settles none.
AttemptPhasesOrdered ==
  [][/\ Len(calls') > Len(calls)
          => (/\ FileTimeoutFires
              /\ Len(calls') = Len(calls) + 1
              /\ isProcessingFile'
              /\ transcriptSegments' = << >>
              /\ fullTranscript' = NoText
              /\ summary' = ""
              /\ transcriptionProgress' = 0)
     /\ (\/ (fullTranscript' # fullTranscript /\ fullTranscript' # NoText)
         \/ (transcriptSegments' # transcriptSegments /\ transcriptSegments' # << >>)
         \/ (transcriptionProgress' # transcriptionProgress
               /\ transcriptionProgress' = ProgressDone))
          => (calls # << >> /\ \E i \in 1 .. Len(calls) : calls' = RemoveAt(calls, i))
     /\ (TranscriptionResolves \/ TranscriptionRejects)
          => (calls # << >> /\ Len(calls') = Len(calls) - 1)]_vars

\* C30, its case: an attempt has been entered over the transcript of an
\* earlier one (a summarization call for that transcript is still in flight):
\* its call is in flight and the transcript, summary and progress are cleared.
AttemptEnteredOverTranscript ==
  /\ isProcessingFile
  /\ CurrentAttemptInFlight
  /\ Len(calls) = 1
  /\ summarizeCalls # << >>
  /\ fullTranscript = NoText /\ transcriptSegments = << >>
  /\ summary = ""
  /\ transcriptionProgress = 0

\* C31: seekTo does nothing while the duration is 0 and otherwise leaves the
\* position at the requested time clamped into [0, duration]; the position is
\* within [0, duration] in every reachable state, and after every seekTo and
\* every skip of 10 seconds.
SeekClampsIntoDuration ==
  /\ currentTime \in 0 .. duration
  /\ \A time \in SeekTimes, canPlay \in CanPlayChoices :
       LET after == Settle(World, seekTo(World, World, time, canPlay))
       IN /\ after.currentTime \in 0 .. after.duration
          /\ duration = 0 => after = World
          /\ duration > 0 => after.currentTime = Clamp(0, duration, time)
  /\ \A amount \in SkipAmounts :
       LET after == Settle(World, handleSkip(World, World, amount))
       IN after.currentTime \in 0 .. after.duration

\* C32: a summarization call that resolves after the transcript it was given
\* has been cleared or replaced does not write summary.
SummaryOnlyForCurrentTranscript ==
  [][\A i \in 1 .. Len(summarizeCalls), resultSummary \in SummaryResults :
        (/\ summarizeCalls[i].transcript # fullTranscript
         /\ Task(SummarizeResolved(
                  [World EXCEPT !.summarizeCalls = RemoveAt(summarizeCalls, i)],
                  resultSummary)))
        => summary' = summary]_vars

\* C33: with the controls fired only while enabled, neither control that runs
\* the full reset (the clear button, the remove button of the file upload)
\* fires in a state where isProcessingFile, isProcessingYouTube or
\* isSummarizing is true.
NoResetControlWhileBusy ==
  [][(isProcessingFile \/ isProcessingYouTube \/ isSummarizing)
       => ~(UIClearAndReset \/ RemoveFile)]_vars

\* The step in which the call of an attempt settles after a newer attempt has
\* been started
OlderCallSettles ==
  \E i \in 1 .. Len(calls) :
    /\ ~calls[i].latest
    /\ \/ \E result \in TranscribeResults : ResolveCall(i, result)
       \/ RejectCall(i)

\* C34: with two attempts overlapping, the completion of the older call leaves
\* the progress timer, isProcessingFile and the transcript as they are, and
\* isProcessingFile is true in every state in which the call of the newest
\* attempt has not settled (and no reset has run since it was started).
OlderCompletionSparesNewerAttempt ==
  [][/\ OlderCallSettles
          => UNCHANGED <<timers, progressIntervalRef, isProcessingFile,
                         transcriptSegments, fullTranscript>>
     /\ CurrentAttemptInFlight' => isProcessingFile']_vars

\* C35: in every settled state the audio source is set exactly when a file is
\* selected.
AudioSrcIffFileSelected == (audioSrc # NoFile) <=> (selectedFile # NoFile)

\* C35, its case: a file is selected again after a full reset ran over an
\* attempt and took the earlier file and its audio source away.
FileSelectedAgainAfterReset ==
  /\ selectedFile # NoFile
  /\ audioSrc = selectedFile
  /\ \E i \in 1 .. Len(calls) : calls[i].superseded

\* C36: in every settled state a selected file and a youtubeUrl that is not
\* blank do not coexist, whichever way the file arrived.
FileAndUrlExclusive == ~(selectedFile # NoFile /\ Truthy(Trim(youtubeUrl)))

\* C36, its case: an upload simulation has delivered its file after a URL had
\* been typed and submitted; the timeout of the URL is still to fire.
FileDeliveredOverSubmittedUrl ==
  /\ selectedFile # NoFile
  /\ ytTimeouts > 0
  /\ youtubeUrl = NoText

\* C37: at most one upload simulation has a live interval, and none has while
\* FileUpload is disabled: a simulation that is running when the component
\* becomes disabled is stopped, so it never delivers its file.
OneUploadSimulationWhileEnabled ==
  /\ Len(sims) <= 1
  /\ fileUploadDisabled(World) => sims = << >>

\* C38: the step that invokes the summarization capability starts from a
\* transcript and a prompt that are not blank and no placeholder message, and
\* isSummarizing is true exactly while a summarization call is in flight.
SummarizingExactlyWhileCallInFlight ==
  [][/\ Len(summarizeCalls') > Len(summarizeCalls)
          => (/\ Truthy(Trim(fullTranscript))
              /\ Truthy(Trim(summaryPrompt))
              /\ ~Truthy(youtubePlaceholderMessage)
              /\ Len(summarizeCalls') = Len(summarizeCalls) + 1)
     /\ isSummarizing' <=> summarizeCalls' # << >>]_vars

\* C38, its case: the summarize button has been pressed; the call it made
\* carries the transcript and the prompt on the page and has not settled.
SummarizationInFlight ==
  /\ isSummarizing
  /\ Len(summarizeCalls) = 1
  /\ summarizeCalls[1].transcript = fullTranscript
  /\ summarizeCalls[1].customPrompt = summaryPrompt
  /\ Truthy(Trim(fullTranscript)) /\ Truthy(Trim(summaryPrompt))

\* C39: seekTo on a transport that is loaded and ready (its element has data
\* to play) starts playback at the clamped time if the transport was paused,
\* and only moves the position if it was playing; a click on a segment with a
\* loaded, paused, ready audio source leaves the transport playing from the
\* start of that segment.
SeekStartsPausedTransport ==
  /\ \A time \in SeekTimes :
       LET moved == [World EXCEPT !.currentTime = Clamp(0, duration, time)]
       IN duration > 0 =>
            /\ (~isPlaying /\ audioPaused)
                 => Settle(World, seekTo(World, World, time, TRUE))
                      = [moved EXCEPT !.isPlaying = TRUE, !.audioPaused = FALSE]
            /\ isPlaying
                 => \A canPlay \in BOOLEAN :
                      Settle(World, seekTo(World, World, time, canPlay)) = moved
  /\ \A i \in 1 .. Len(transcriptSegments) :
       LET startTime == transcriptSegments[i].start
           after == Settle(World, handleSegmentClick(World, World, startTime, TRUE))
       IN (/\ audioSrc # NoFile /\ ~Truthy(youtubePlaceholderMessage)
           /\ duration > 0
           /\ ~isPlaying /\ audioPaused)
            => (after.isPlaying /\ ~after.audioPaused /\ after.currentTime = startTime)

\* C39, its case: the transport plays from the start of the first segment
\* after a click on it, while the last position it reported to the page was a
\* later one.
PlayingFromClickedSegment ==
  /\ audioSrc # NoFile /\ ~Truthy(youtubePlaceholderMessage)
  /\ Len(transcriptSegments) = 2
  /\ isPlaying /\ ~audioPaused
  /\ currentTime = transcriptSegments[1].start
  /\ currentAudioTime > currentTime

\* C40: whenever the transport is not muted its volume is greater than 0:
\* setting the volume to 0 mutes, and unmuting at volume 0 raises the volume
\* to one half.
UnmutedVolumePositive ==
  /\ ~isMuted => volume > 0
  /\ LET after == Settle(World, handleVolumeChange(World, World, 0))
     IN after.isMuted /\ after.volume = 0
  /\ (isMuted /\ volume = 0)
       => LET after == Settle(World, toggleMute(World, World))
          IN ~after.isMuted /\ after.volume = UnmuteVolume

\* C40, its case: the volume slider has been moved to 0 under a loaded source,
\* which muted the transport.
MutedByVolumeZero ==
  /\ audioSrc # NoFile
  /\ isMuted
  /\ volume = 0

====
